---- MODULE Spec2Model ----
(***************************************************************************)
(* Character-network front end: the graph model kept by useNetworkData     *)
(* (updateData, highlightCharacter, getCharacterInteractions), the         *)
(* highlight effect, the force layout, the simulations, the drag handlers  *)
(* and the auto-fit timers of NetworkVisualization, and the session of     *)
(* App: handleBookSelect, the analysis_update events of useSocket and the  *)
(* effect that applies them.                                               *)
(*                                                                         *)
(* Lengths (radius, stroke widths, coordinates) are fixed-point numbers    *)
(* in thousandths of a pixel; opacities are in thousandths.                *)
(* An optional value (x?: number, a missing field) is None or Some(v).     *)
(***************************************************************************)
EXTENDS Integers, Sequences, FiniteSets, TLC

VARIABLES
  nodes,                 \* useNetworkData: the node list (objects the layout mutates)
  links,                 \* useNetworkData: the link list
  highlightedCharacter,  \* useNetworkData: the selected name, or Null
  data,                  \* the argument of the last updateData call
  reapplied,             \* that call had the argument of the call before it
  lastValid,             \* history: the last well-formed batch, None before the first
  lastCall,              \* the operation that ran last
  nodeDom,               \* per node element: stroke of its .main-circle
  linkDom,               \* per link element: stroke-opacity, stroke, stroke-width
  width, height,         \* App: containerDimensions, in pixels
  simRunning,            \* the simulation of the last run of the main effect runs
  supersededRunning,     \* a simulation of an earlier run of the main effect runs
  exiting,               \* the node elements that are fading out, with their run
  fitPending,            \* the auto-fit timer of the last run has not fired yet
  transform,             \* the zoom transform auto-fit gave the svg last
  linkEnds,              \* per link element: x1, y1, x2, y2 of the last tick, or None
  alpha, alphaTarget,    \* the simulation of the last run: energy left, its target
  supersededSim,         \* the restarted simulation of an earlier run
  drag,                  \* the drag gesture in progress, or None
  fitImmediate,          \* the `immediate` argument of the auto-fit of the last run
  earlierFits,           \* the pending auto-fit timers of earlier runs
  currentUpdate,         \* useSocket: the last analysis_update, or None
  effectDue,             \* currentUpdate changed and App's effect has not run yet
  isAnalyzing,           \* App
  hasAnalyzed,           \* App
  fetching,              \* App: the POST of handleBookSelect has not settled
  pending                \* history: the types of the events with data that
                         \* arrived in this session and were not given to
                         \* updateData, oldest first

simVars == <<simRunning, supersededRunning, exiting, fitPending, transform,
             linkEnds, alpha, alphaTarget, supersededSim, drag, fitImmediate>>

appVars == <<currentUpdate, effectDue, isAnalyzing, hasAnalyzed, fetching,
             pending>>

vars == <<nodes, links, highlightedCharacter, data, reapplied, lastValid,
          lastCall, nodeDom, linkDom, width, height,
          simRunning, supersededRunning, exiting, fitPending, transform,
          linkEnds, alpha, alphaTarget, supersededSim, drag, fitImmediate,
          earlierFits,
          currentUpdate, effectDue, isAnalyzing, hasAnalyzed, fetching,
          pending>>

---------------------------------------------------------------------------
(* Bounds of the explored inputs *)

MaxChars == 2
MaxInteractions == 1
\* the ticks a simulation at full energy takes to cool below alphaMin
CoolingTicks == 1
\* the events of one session the history follows
MaxEvents == 2
\* the pending timers of earlier runs that are followed
MaxEarlierFits == 2

\* the characters of the book, in the order the analysis lists them
Cast == <<"Alice", "Bob">>
Names == {Cast[i] : i \in 1..Len(Cast)}
MentionVals == {1, 2}
WeightVals == {1, 2}
\* values around the ends of the radius and stroke-width ranges
WideMentions == {1, 2, 3, 44, 45, 400}
WideWeights == {1, 2, 15, 16, 17, 400}
Descriptions == {"desc"}
ContextLists == {<<"ctx">>}

\* positions the forces may move a node to in one step, and canvas sizes
RawPositions == {<<-50000, -50000>>, <<450000, 350000>>, <<1000000, 200000>>}
\* the initial size, a desktop size and the smallest size on a mobile screen
Sizes == {<<900, 700>>, <<600, 400>>, <<300, 400>>}

\* positions the pointer may drag a node to
DragPositions == {<<100000, 100000>>, <<450000, 350000>>}

\* the characters of the layout runs: a short name and a name of 50 letters
LayoutCast == <<"Alice", "Bartholomew Montgomery-Featherstonehaugh the Third">>
LayoutNames == {LayoutCast[i] : i \in 1..Len(LayoutCast)}

---------------------------------------------------------------------------
(* Optional values and small helpers *)

None == <<>>
Some(v) == <<v>>
Null == "<null>"
\* the list in an optional field, empty when the field is missing
ListOf(opt) == IF opt = None THEN <<>> ELSE opt[1]

Max(a, b) == IF a >= b THEN a ELSE b
Min(a, b) == IF a <= b THEN a ELSE b

RECURSIVE SqrtSearch(_, _, _)
SqrtSearch(n, lo, hi) ==
  IF lo >= hi THEN lo
  ELSE LET mid == (lo + hi + 1) \div 2
       IN IF mid * mid <= n THEN SqrtSearch(n, mid, hi)
          ELSE SqrtSearch(n, lo, mid - 1)

\* floor(1000 * Math.sqrt(v)) for a non-negative integer v
ISqrt1000(v) == SqrtSearch(v * 1000000, 0, Min(v * 1000000, 46340))

SeqsUpTo(S, n) == UNION {[1..k -> S] : k \in 0..n}

---------------------------------------------------------------------------
(* Types of the inbound batch (AnalysisResult) *)

Character == [name : Names, mentions : MentionVals, description : Descriptions]

Interaction == [source : Names, target : Names, weight : WeightVals,
                contexts : ContextLists]

CharacterLists == SeqsUpTo(Character, MaxChars)
InteractionLists == SeqsUpTo(Interaction, MaxInteractions)

\* A batch object; isNull stands for a null/undefined argument, a field that
\* is None is a missing property. The list a malformed batch does carry is
\* one shorter than the bound.
ValidBatches ==
  {[isNull |-> FALSE, characters |-> Some(c), interactions |-> Some(i)] :
      c \in CharacterLists, i \in InteractionLists}

MalformedBatches ==
  {[isNull |-> TRUE, characters |-> None, interactions |-> None],
   [isNull |-> FALSE, characters |-> None, interactions |-> None]}
  \cup {[isNull |-> FALSE, characters |-> Some(c), interactions |-> None] :
          c \in SeqsUpTo(Character, MaxChars - 1)}
  \cup {[isNull |-> FALSE, characters |-> None, interactions |-> Some(i)] :
          i \in SeqsUpTo(Interaction, MaxInteractions - 1)}

Batches == ValidBatches \cup MalformedBatches

\* Cumulative snapshots for the layout: characters alone, listed in the
\* order of the cast, every one but the last with enough mentions to be kept
\* (so a character's index in the node list is the same in every batch).
LayoutCharacter ==
  [name : LayoutNames, mentions : MentionVals, description : Descriptions]

LayoutBatches ==
  {[isNull |-> FALSE, characters |-> Some(c), interactions |-> Some(<<>>)] :
     c \in {l \in SeqsUpTo(LayoutCharacter, MaxChars) :
              /\ Len(l) <= Len(LayoutCast)
              /\ \A i \in 1..Len(l) :
                   /\ l[i].name = LayoutCast[i]
                   /\ i < Len(l) => l[i].mentions >= 2}}

\* Math.sqrt on the values the batches carry, tabulated once
Sqrt1000 ==
  [v \in MentionVals \cup WeightVals \cup WideMentions \cup WideWeights |->
     ISqrt1000(v)]

\* Snapshots of the two characters of the cast with any mentions, joined by
\* at most one interaction of any weight.
RangeBatches ==
  {[isNull |-> FALSE,
    characters |-> Some(<<[name |-> Cast[1], mentions |-> m[1], description |-> "desc"],
                          [name |-> Cast[2], mentions |-> m[2], description |-> "desc"]>>),
    interactions |-> Some(i)] :
     m \in WideMentions \X WideMentions,
     i \in {<<>>} \cup {<<[source |-> Cast[1], target |-> Cast[2], weight |-> w,
                            contexts |-> <<"ctx">>]>> : w \in WideWeights}}

\* Snapshots of the two characters of the cast, joined or not
PairCharacters ==
  [i \in 1..2 |-> [name |-> Cast[i], mentions |-> 2, description |-> "desc"]]
PairInteraction ==
  [source |-> Cast[1], target |-> Cast[2], weight |-> 2, contexts |-> <<"ctx">>]
PairBatches ==
  {[isNull |-> FALSE, characters |-> Some(SubSeq(PairCharacters, 1, n)),
    interactions |-> Some(i)] :
     n \in 1..2, i \in {<<>>, <<PairInteraction>>}}

\* The analysis_update events (StreamingUpdate): the data field is missing,
\* an object without lists, or a snapshot.
NoData == [isNull |-> TRUE, characters |-> None, interactions |-> None]
EmptyObject == [isNull |-> FALSE, characters |-> None, interactions |-> None]
Snapshots ==
  {b \in PairBatches : Len(ListOf(b.characters)) = Len(ListOf(b.interactions)) + 1}
Events ==
  [type : {"batch_complete", "analysis_complete"}, data : {NoData} \cup Snapshots]
  \cup [type : {"analysis_complete"}, data : {EmptyObject}]
  \cup [type : {"error", "progress"},
         data : {NoData} \cup {b \in Snapshots : ListOf(b.interactions) # <<>>}]

---------------------------------------------------------------------------
(* useNetworkData.updateData *)

colorPalette ==
  << "#ff6b6b", "#4ecdc4", "#45b7d1", "#96ceb4", "#feca57",
     "#ff9ff3", "#54a0ff", "#5f27cd", "#00d2d3", "#ff9f43",
     "#10ac84", "#ee5253", "#0abde3", "#3742fa", "#2ed573",
     "#ff5722", "#9c27b0", "#673ab7", "#3f51b5", "#2196f3",
     "#03a9f4", "#00bcd4", "#009688", "#4caf50", "#8bc34a",
     "#cddc39", "#ffeb3b", "#ffc107", "#ff9800", "#ff5722",
     "#795548", "#607d8b", "#e91e63", "#f44336", "#ff4081",
     "#c51162", "#aa00ff", "#6200ea", "#3d5afe", "#2979ff",
     "#00b0ff", "#00e5ff", "#1de9b6", "#00e676", "#76ff03",
     "#c6ff00", "#ffea00", "#ffc400", "#ff9100", "#ff3d00" >>

\* if (!data?.characters || !data?.interactions) return;
OnlyCharactersChecked(d) == ~d.isNull /\ d.characters # None
HasBothLists(d) ==
  ~d.isNull /\ d.characters # None /\ d.interactions # None

\* data.characters.filter(char => char.mentions >= 2)
KeepAllCharacters(chars) == chars
filteredCharacters(chars) == SelectSeq(chars, LAMBDA c : c.mentions >= 2)

\* Math.min(5, Math.ceil(char.mentions / 5))
Importance(mentions) == Min(5, (mentions + 4) \div 5)

\* Math.max(30, Math.min(60, 20 + Math.sqrt(char.mentions) * 6))
UnboundedRadius(mentions) == 20000 + 6 * Sqrt1000[mentions]
Radius(mentions) == Max(30000, Min(60000, 20000 + 6 * Sqrt1000[mentions]))

\* colorPalette[index % colorPalette.length], index counted from 0
NodeColor(index) == colorPalette[(index % Len(colorPalette)) + 1]

\* The node object built for one filtered character; x, y, fx, fy are absent.
NewNode(char, index) ==
  [ id |-> char.name,
    name |-> char.name,
    mentions |-> char.mentions,
    description |-> char.description,
    radius |-> Radius(char.mentions),
    importance |-> Importance(char.mentions),
    color |-> NodeColor(index),
    x |-> None, y |-> None, fx |-> None, fy |-> None ]

\* (a merge that keeps the nodes of earlier batches the batch does not name)
MergedNodes(chars) ==
  LET f == filteredCharacters(chars)
      fresh == [i \in 1..Len(f) |-> NewNode(f[i], i - 1)]
      kept == SelectSeq(nodes, LAMBDA n : \A i \in 1..Len(f) : f[i].name # n.id)
  IN fresh \o [i \in 1..Len(kept) |->
                 [kept[i] EXCEPT !.x = None, !.y = None, !.fx = None, !.fy = None]]
newNodes(chars) ==
  LET f == filteredCharacters(chars)
  IN [i \in 1..Len(f) |-> NewNode(f[i], i - 1)]

\* characterMap.has(name)
characterMapHas(ns, name) == \E i \in 1..Len(ns) : ns[i].name = name

\* data.interactions.filter(...)
SourceOnlyInteractions(inter, ns) ==
  SelectSeq(inter, LAMBDA it : characterMapHas(ns, it.source) /\ it.weight >= 2)
validInteractions(inter, ns) ==
  SelectSeq(inter, LAMBDA it :
     /\ characterMapHas(ns, it.source)
     /\ characterMapHas(ns, it.target)
     /\ it.weight >= 2)

\* Math.max(2, Math.min(10, Math.sqrt(interaction.weight) * 2.5))
StrokeWidth(weight) == Max(2000, Min(10000, (Sqrt1000[weight] * 5) \div 2))

NewLink(it) ==
  [ source |-> it.source,
    target |-> it.target,
    weight |-> it.weight,
    contexts |-> it.contexts,
    strokeWidth |-> StrokeWidth(it.weight) ]

\* (a merge that adds the weight of the link already drawn for the pair)
AccumulatedLinks(inter, ns) ==
  LET v == validInteractions(inter, ns)
      old(it) == {k \in 1..Len(links) :
                    links[k].source = it.source /\ links[k].target = it.target}
  IN [i \in 1..Len(v) |->
        [NewLink(v[i]) EXCEPT !.weight =
            IF old(v[i]) = {} THEN v[i].weight
            ELSE v[i].weight + links[CHOOSE k \in old(v[i]) : TRUE].weight]]
newLinks(inter, ns) ==
  LET v == validInteractions(inter, ns)
  IN [i \in 1..Len(v) |-> NewLink(v[i])]

---------------------------------------------------------------------------
(* NetworkVisualization: the simulation and the elements of the main effect *)

Width == 900
Height == 700

\* d3.forceSimulation(nodes) gives every node that has no position yet the
\* phyllotaxis position of its index (radius 10 * sqrt(0.5 + i), angle
\* i * pi * (3 - sqrt 5)); a node that has a position keeps it.
InitialPosition(index) ==
  CASE index = 0 -> <<7071, 0>>
    [] index = 1 -> <<-9031, 8273>>
    [] index = 2 -> <<1382, -15751>>
    [] index = 3 -> <<11383, 14847>>
    [] index = 4 -> <<-20889, -3695>>
    [] OTHER     -> <<19788, -12587>>

InitializeNode(n, index) ==
  LET px == IF n.fx # None THEN n.fx ELSE n.x
      py == IF n.fy # None THEN n.fy ELSE n.y
  IN IF px = None \/ py = None
     THEN [n EXCEPT !.x = Some(InitialPosition(index)[1]),
                    !.y = Some(InitialPosition(index)[2])]
     ELSE [n EXCEPT !.x = px, !.y = py]

forceSimulation(ns) == [i \in 1..Len(ns) |-> InitializeNode(ns[i], i - 1)]

\* The elements that start to fade out when the main effect joins the new
\* node list: those of the ids that left, with the ones still fading. They
\* keep the handlers of the run that bound them. A first render has none.
\* Each is kept with the canvas size and the energy of that run.
ExitingAfter(old, new, fading, w, h, a) ==
  IF old = <<>> \/ new = <<>> THEN {}
  ELSE { e \in fading \cup { [id |-> old[i].id, width |-> w, height |-> h,
                                alpha |-> a] : i \in 1..Len(old) } :
           \A j \in 1..Len(new) : new[j].id # e.id }

\* One step of a simulation: alpha moves towards alphaTarget; the energy is
\* counted in the ticks left until it is below alphaMin, and does not get
\* there while alphaTarget is above alphaMin.
StepAlpha(a, target) ==
  IF target = 0 THEN Max(0, a - 1) ELSE Max(1, a - 1)

\* d3.zoomIdentity, what a freshly mounted svg has
ZoomIdentity == [k |-> 1000, x |-> 0, y |-> 0]

NameLength(name) == Len(name)

\* Math.max(d.radius + 30, (d.name.length * 3) + 20)
Margin(n) == Max(n.radius + 30000, (NameLength(n.name) * 3 + 20) * 1000)

\* One step of the simulation for one node: the forces move a free node to
\* p, a pinned node goes to its pin; the tick handler then clamps x and y.
MovedNode(n, p) ==
  [n EXCEPT !.x = Some(IF n.fx # None THEN n.fx[1] ELSE p[1]),
            !.y = Some(IF n.fy # None THEN n.fy[1] ELSE p[2])]

\* d.x = Math.max(margin, Math.min(width - margin, d.x)), and d.y alike
ClampedNode(n, w, h) ==
  LET m == Margin(n)
  IN [n EXCEPT !.x = Some(Max(m, Min(w * 1000 - m, n.x[1]))),
               !.y = Some(Max(m, Min(h * 1000 - m, n.y[1])))]

TickNode(n, p, w, h) == ClampedNode(MovedNode(n, p), w, h)

\* forceLink resolves an id with a Map of the nodes by id: of two nodes
\* with one id the later one
NodeOfId(ns, id) ==
  CHOOSE i \in 1..Len(ns) :
    ns[i].id = id /\ \A j \in 1..Len(ns) : ns[j].id = id => j <= i

\* x1, y1, x2, y2 of line.link, read from the link's source and target
LinkEnd(ns, l) ==
  LET src == ns[NodeOfId(ns, l.source)]
      tgt == ns[NodeOfId(ns, l.target)]
  IN Some([x1 |-> src.x[1], y1 |-> src.y[1], x2 |-> tgt.x[1], y2 |-> tgt.y[1]])

tickLinkEnds(ns, ls) == [i \in 1..Len(ls) |-> LinkEnd(ns, ls[i])]

\* the key of the link join
LinkKey(l) == l.source \o "-" \o l.target

\* The join of the link elements by key: the element of a key is kept with
\* the coordinates it has, a new element has none.
joinLinkEnds(old, ends, new) ==
  [i \in 1..Len(new) |->
     LET same == {j \in 1..Len(old) : LinkKey(old[j]) = LinkKey(new[i])}
         first == \A k \in 1..(i - 1) : LinkKey(new[k]) # LinkKey(new[i])
     IN IF first /\ same # {}
        THEN ends[CHOOSE j \in same : \A k \in same : j <= k]
        ELSE None]

\* Styles are the end values of the transitions that set them.
DefaultNodeStroke == [stroke |-> "rgba(255, 255, 255, 0.9)", strokeWidth |-> 2500]
SelectedNodeStroke == [stroke |-> "#ff4757", strokeWidth |-> 5000]
ConnectedNodeStroke == [stroke |-> "#ffa502", strokeWidth |-> 4000]

\* d3.interpolateRgb(grey, white)(Math.min(1, d.weight / 15))
DefaultLinkColor(l) == <<"interpolateRgb", Min(1000, (l.weight * 1000) \div 15)>>
ActiveLinkColor == <<"#ff4757">>

\* Math.max(1.5, d.strokeWidth * 0.9)
DefaultLinkWidth(l) == Max(1500, (l.strokeWidth * 9) \div 10)
\* Math.max(3, d.strokeWidth * 2)
ActiveLinkWidth(l) == Max(3000, l.strokeWidth * 2)

\* linkEnter.merge(linkSelection): every link element gets the default style.
mainEffectLinkDom(ls) ==
  [i \in 1..Len(ls) |->
     [ strokeOpacity |-> 700,
       stroke |-> DefaultLinkColor(ls[i]),
       strokeWidth |-> DefaultLinkWidth(ls[i]) ]]

---------------------------------------------------------------------------
(* NetworkVisualization: the highlight effect, deps [highlightedCharacter, links] *)

\* (d.source).name === highlightedCharacter || (d.target).name === highlightedCharacter
IsIncident(l, h) == l.source = h \/ l.target = h

\* links.filter(incident).map(other endpoint)
connectedCharacters(ls, h) ==
  { (IF ls[i].source = h THEN ls[i].target ELSE ls[i].source) :
      i \in {k \in 1..Len(ls) : IsIncident(ls[k], h)} }

\* .main-circle: reset, then the selected stroke, then the connected stroke
highlightNodeDom(ns, ls, h) ==
  [i \in 1..Len(ns) |->
     IF h # Null /\ ns[i].name \in connectedCharacters(ls, h)
       THEN ConnectedNodeStroke
     ELSE IF h # Null /\ ns[i].name = h
       THEN SelectedNodeStroke
     ELSE DefaultNodeStroke]

\* line.link: the reset sets stroke-opacity only; an incident link then gets
\* opacity, stroke and stroke-width
highlightLinkDom(ls, h, oldDom) ==
  [i \in 1..Len(ls) |->
     IF h # Null /\ IsIncident(ls[i], h)
     THEN [ strokeOpacity |-> 1000,
            stroke |-> ActiveLinkColor,
            strokeWidth |-> ActiveLinkWidth(ls[i]) ]
     ELSE [oldDom[i] EXCEPT !.strokeOpacity = 700]]

---------------------------------------------------------------------------
(* NetworkVisualization.autoFitGraph: the transform the timer computes *)

AlwaysShortDelay(immediate) == 100
\* const delay = immediate ? 100 : 1000, in milliseconds
FitDelay(immediate) == IF immediate THEN 100 ELSE 1000
\* const duration = immediate ? 500 : 1500
FitDuration(immediate) == IF immediate THEN 500 ELSE 1500

\* (node.name.length * 8) + 20
TextWidth(n) == (NameLength(n.name) * 8 + 20) * 1000

\* Math.max(node.radius, textWidth / 2) + 20
FootprintOfCenter(n) == 0
FootprintRadius(n) == Max(n.radius, TextWidth(n) \div 2) + 20000

\* node.x || 0
Coord(opt) == IF opt = None THEN 0 ELSE opt[1]

SetMin(S) == CHOOSE m \in S : \A e \in S : m <= e
SetMax(S) == CHOOSE m \in S : \A e \in S : m >= e

\* minX, maxX, minY, maxY over the footprints
BoundingBox(ns) ==
  LET I == 1..Len(ns)
  IN [ minX |-> SetMin({Coord(ns[i].x) - FootprintRadius(ns[i]) : i \in I}),
       maxX |-> SetMax({Coord(ns[i].x) + FootprintRadius(ns[i]) : i \in I}),
       minY |-> SetMin({Coord(ns[i].y) - FootprintRadius(ns[i]) : i \in I}),
       maxY |-> SetMax({Coord(ns[i].y) + FootprintRadius(ns[i]) : i \in I}) ]

\* v || 100
OrHundred(v) == IF v = 0 THEN 100000 ELSE v

ContentWidth(ns) == OrHundred(BoundingBox(ns).maxX - BoundingBox(ns).minX)
ContentHeight(ns) == OrHundred(BoundingBox(ns).maxY - BoundingBox(ns).minY)

\* Math.min(scaleX, scaleY, 1.5) with padding 80, in thousandths
WidestScale(ns, w, h) ==
  Max(((w - 160) * 1000000) \div ContentWidth(ns),
      ((h - 160) * 1000000) \div ContentHeight(ns))
FitScale(ns, w, h) ==
  Min(Min(((w - 160) * 1000000) \div ContentWidth(ns),
          ((h - 160) * 1000000) \div ContentHeight(ns)),
      1500)

\* d3.zoomIdentity.translate(translateX, translateY).scale(scale)
autoFitGraph(ns, w, h) ==
  LET b == BoundingBox(ns)
      k == FitScale(ns, w, h)
      contentCenterX == (b.minX + b.maxX) \div 2
      contentCenterY == (b.minY + b.maxY) \div 2
  IN [ k |-> k,
       x |-> w * 500 - (contentCenterX * k) \div 1000,
       y |-> h * 500 - (contentCenterY * k) \div 1000 ]

\* where the transform t puts the point of coordinate c (one axis)
Mapped(c, k, t) == t + (c * k) \div 1000

---------------------------------------------------------------------------
(* useNetworkData.getCharacterInteractions *)

\* A Map is the sequence of its <<key, value>> entries in insertion order.
MapHas(m, key) == \E i \in 1..Len(m) : m[i][1] = key
MapGet(m, key) == m[CHOOSE i \in 1..Len(m) : m[i][1] = key][2]
MapSet(m, key, v) ==
  IF MapHas(m, key)
  THEN [i \in 1..Len(m) |-> IF m[i][1] = key THEN <<key, v>> ELSE m[i]]
  ELSE Append(m, <<key, v>>)

\* map.get(key) || 0
GetOrZero(m, key) == IF MapHas(m, key) THEN MapGet(m, key) ELSE 0

\* nodes.forEach(node => interactionMap.set(node.name, new Map()))
RECURSIVE InitialMap(_, _)
InitialMap(ns, m) ==
  IF ns = <<>> THEN m
  ELSE InitialMap(Tail(ns), MapSet(m, Head(ns).name, <<>>))

\* the body of links.forEach: both maps are fetched first; for a link from a
\* character to itself they are one map, which is then written twice
AddLink(m, l) ==
  IF MapHas(m, l.source) /\ MapHas(m, l.target)
  THEN LET sourceMap == MapGet(m, l.source)
           m1 == MapSet(m, l.source,
                   MapSet(sourceMap, l.target,
                          GetOrZero(sourceMap, l.target) + l.weight))
           targetMap == MapGet(m1, l.target)
       IN MapSet(m1, l.target,
            MapSet(targetMap, l.source,
                   GetOrZero(targetMap, l.source) + l.weight))
  ELSE m

RECURSIVE AddLinks(_, _)
AddLinks(m, ls) ==
  IF ls = <<>> THEN m ELSE AddLinks(AddLink(m, Head(ls)), Tail(ls))

RECURSIVE SumValues(_)
SumValues(m) == IF m = <<>> THEN 0 ELSE Head(m)[2] + SumValues(Tail(m))

\* array.sort((a, b) => key(b) - key(a)): descending and stable; keys[i] is
\* the key of seq[i]
SortDescending(seq, keys) ==
  LET n == Len(seq)
      place(i) == 1 + Cardinality({j \in 1..n : keys[j] > keys[i]})
                    + Cardinality({j \in 1..(i - 1) : keys[j] = keys[i]})
  IN [p \in 1..n |-> seq[CHOOSE i \in 1..n : place(i) = p]]

\* .slice(0, 8)
FirstEight(seq) == SubSeq(seq, 1, Min(8, Len(seq)))

getCharacterInteractions(ns, ls) ==
  LET interactionMap == AddLinks(InitialMap(ns, <<>>), ls)
      entry(e) ==
        [ character |-> e[1],
          totalInteractions |-> SumValues(e[2]),
          partners |-> FirstEight(SortDescending(e[2],
                         [i \in 1..Len(e[2]) |-> e[2][i][2]])) ]
      entries == [i \in 1..Len(interactionMap) |-> entry(interactionMap[i])]
  IN SortDescending(entries,
       [i \in 1..Len(entries) |-> entries[i].totalInteractions])

---------------------------------------------------------------------------
(* Operations *)

Init ==
  /\ nodes = <<>>
  /\ links = <<>>
  /\ highlightedCharacter = Null
  /\ data = None
  /\ reapplied = FALSE
  /\ lastValid = None
  /\ lastCall = "init"
  /\ nodeDom = <<>>
  /\ linkDom = <<>>
  /\ width = Width
  /\ height = Height
  /\ simRunning = FALSE
  /\ supersededRunning = FALSE
  /\ exiting = {}
  /\ fitPending = FALSE
  /\ transform = ZoomIdentity
  /\ linkEnds = <<>>
  /\ alpha = 0
  /\ alphaTarget = 0
  /\ supersededSim = [alpha |-> 0, alphaTarget |-> 0,
                      width |-> Width, height |-> Height]
  /\ drag = None
  /\ fitImmediate = FALSE
  /\ earlierFits = <<>>
  /\ currentUpdate = None
  /\ effectDue = FALSE
  /\ isAnalyzing = FALSE
  /\ hasAnalyzed = FALSE
  /\ fetching = FALSE
  /\ pending = <<>>

\* The gesture in progress after a run of the main effect: its handlers keep
\* the simulation of the run that bound them, which the cleanup stopped, and
\* its subject is the node object it started on.
DragAfterRun(g, replaced) ==
  IF g = None THEN None
  ELSE Some([g[1] EXCEPT
               !.sim = IF @ = "current" THEN "stopped" ELSE @,
               !.node = IF replaced THEN "superseded" ELSE @])

\* updateData(d), with the render it causes: setNodes and setLinks, the main
\* effect (its cleanup stops the simulation it made, then a new simulation,
\* the element join, the auto-fit timer) and then the highlight effect.
\* The component is mounted while there are nodes.
UpdateData(d) ==
  /\ data' = Some(d)
  /\ reapplied' = (data = Some(d))
  /\ lastCall' = "updateData"
  /\ IF ~HasBothLists(d)
     THEN UNCHANGED <<nodes, links, nodeDom, linkDom, simVars>>
     ELSE LET ns == forceSimulation(newNodes(ListOf(d.characters)))
              ls == newLinks(ListOf(d.interactions), ns)
          IN /\ nodes' = ns
             /\ links' = ls
             /\ nodeDom' = highlightNodeDom(ns, ls, highlightedCharacter)
             /\ linkDom' = highlightLinkDom(ls, highlightedCharacter,
                                            mainEffectLinkDom(ls))
             /\ simRunning' = (ns # <<>>)
             /\ alpha' = IF ns # <<>> THEN CoolingTicks ELSE 0
             /\ alphaTarget' = 0
             /\ exiting' = ExitingAfter(nodes, ns, exiting, width, height, alpha)
             /\ fitPending' = (ns # <<>>)
             /\ fitImmediate' = (ns # <<>> /\ Len(ns) # Len(nodes))
             /\ transform' = IF nodes = <<>> \/ ns = <<>> THEN ZoomIdentity
                              ELSE transform
             /\ linkEnds' = IF nodes = <<>> THEN [i \in 1..Len(ls) |-> None]
                             ELSE joinLinkEnds(links, linkEnds, ls)
             /\ drag' = DragAfterRun(drag, TRUE)
             /\ UNCHANGED <<supersededRunning, supersededSim>>
  /\ UNCHANGED <<highlightedCharacter, width, height>>

\* highlightCharacter(name): setHighlightedCharacter and, when the value
\* changed, the highlight effect on the elements as they are.
HighlightCharacter(name) ==
  /\ lastCall' = "highlightCharacter"
  /\ highlightedCharacter' = name
  /\ IF name = highlightedCharacter
     THEN UNCHANGED <<nodeDom, linkDom>>
     ELSE /\ nodeDom' = highlightNodeDom(nodes, links, name)
          /\ linkDom' = highlightLinkDom(links, name, linkDom)
  /\ UNCHANGED <<nodes, links, data, reapplied, lastValid, width, height,
                 simVars, earlierFits, appVars>>

\* One tick of the running simulation: the forces move every node, the
\* tick handler writes the ends of the links and then clamps the nodes; the
\* simulation stops when its energy is below alphaMin.
Tick ==
  /\ simRunning
  /\ nodes # <<>>
  /\ \E p \in [1..Len(nodes) -> RawPositions] :
       LET moved == [i \in 1..Len(nodes) |-> MovedNode(nodes[i], p[i])]
       IN /\ linkEnds' = tickLinkEnds(moved, links)
          /\ nodes' = [i \in 1..Len(nodes) |->
                         ClampedNode(moved[i], width, height)]
  /\ alpha' = StepAlpha(alpha, alphaTarget)
  /\ simRunning' = (StepAlpha(alpha, alphaTarget) > 0)
  /\ lastCall' = "tick"
  /\ UNCHANGED <<links, highlightedCharacter, data, reapplied, lastValid,
                 nodeDom, linkDom, width, height, supersededRunning, exiting,
                 fitPending, transform, alphaTarget, supersededSim, drag,
                 fitImmediate, earlierFits, appVars>>

\* One tick of the restarted simulation of an earlier run: its forces move
\* the node objects of that run; its tick handler selects the elements
\* there are now and clamps their nodes to the canvas of its run.
SupersededTick ==
  /\ supersededRunning
  /\ supersededSim' = [supersededSim EXCEPT
                         !.alpha = StepAlpha(@, supersededSim.alphaTarget)]
  /\ supersededRunning' =
       (StepAlpha(supersededSim.alpha, supersededSim.alphaTarget) > 0)
  /\ IF nodes = <<>>
     THEN UNCHANGED <<nodes, linkEnds>>
     ELSE /\ linkEnds' = tickLinkEnds(nodes, links)
          /\ nodes' = [i \in 1..Len(nodes) |->
                         ClampedNode(nodes[i], supersededSim.width,
                                     supersededSim.height)]
  /\ lastCall' = "supersededTick"
  /\ UNCHANGED <<links, highlightedCharacter, data, reapplied, lastValid,
                 nodeDom, linkDom, width, height, simRunning, exiting,
                 fitPending, transform, alpha, alphaTarget, drag,
                 fitImmediate, earlierFits, appVars>>

\* setContainerDimensions: the main effect runs again on the same node
\* objects (new simulation, default link styles, a new auto-fit timer); the
\* highlight effect does not. Nothing is mounted while there are no nodes.
Resize(w, h) ==
  /\ <<w, h>> # <<width, height>>
  /\ width' = w
  /\ height' = h
  /\ lastCall' = "resize"
  /\ nodes' = forceSimulation(nodes)
  /\ linkDom' = mainEffectLinkDom(links)
  /\ IF nodes = <<>>
     THEN UNCHANGED <<simRunning, fitPending, alpha, alphaTarget, drag,
                      fitImmediate>>
     ELSE /\ simRunning' = TRUE
          /\ fitPending' = TRUE
          /\ alpha' = CoolingTicks
          /\ alphaTarget' = 0
          /\ fitImmediate' = FALSE
          /\ drag' = DragAfterRun(drag, FALSE)
  /\ UNCHANGED <<links, highlightedCharacter, data, reapplied, lastValid, nodeDom,
                 supersededRunning, exiting, transform, linkEnds,
                 supersededSim, appVars>>

\* A timer that was set earlier fires before one set later unless its
\* delay is longer.
FiresBefore(earlier, later) == FitDelay(earlier) <= FitDelay(later)

\* The timer of autoFitGraph fires: the transform is computed from the
\* nodes as they are now and given to the svg.
AutoFit ==
  /\ fitPending
  /\ nodes # <<>>
  /\ \A j \in 1..Len(earlierFits) :
       ~FiresBefore(earlierFits[j].immediate, fitImmediate)
  /\ transform' = autoFitGraph(nodes, width, height)
  /\ fitPending' = FALSE
  /\ lastCall' = "autoFit"
  /\ UNCHANGED <<nodes, links, highlightedCharacter, data, reapplied, lastValid,
                 nodeDom, linkDom, width, height,
                 simRunning, supersededRunning, exiting, linkEnds, alpha,
                 alphaTarget, supersededSim, drag, fitImmediate, earlierFits,
                 appVars>>

\* The timer of an earlier run fires: its closure has the node list and the
\* size of its render; the node list is the one of now while no batch has
\* replaced it.
EarlierAutoFit(i) ==
  /\ i \in 1..Len(earlierFits)
  /\ nodes # <<>>
  /\ \A j \in 1..(i - 1) :
       ~FiresBefore(earlierFits[j].immediate, earlierFits[i].immediate)
  /\ LET t == earlierFits[i]
         ns == IF t.captured = None THEN nodes ELSE t.captured[1]
     IN transform' = autoFitGraph(ns, t.width, t.height)
  /\ earlierFits' = [j \in 1..(Len(earlierFits) - 1) |->
                       IF j < i THEN earlierFits[j] ELSE earlierFits[j + 1]]
  /\ lastCall' = "earlierAutoFit"
  /\ UNCHANGED <<nodes, links, highlightedCharacter, data, reapplied, lastValid,
                 nodeDom, linkDom, width, height,
                 simRunning, supersededRunning, exiting, fitPending, linkEnds,
                 alpha, alphaTarget, supersededSim, drag, fitImmediate,
                 appVars>>

\* What a run of the main effect does to the timers of the runs before it:
\* nothing cancels them. The timer of the run before joins them while it
\* is pending; a timer whose node list a batch replaced keeps the old list.
\* The timers of an unmounted component act on an svg that is gone.
FollowFits(ran, replaced) ==
  LET kept == [j \in 1..Len(earlierFits) |->
                 IF replaced /\ earlierFits[j].captured = None
                 THEN [earlierFits[j] EXCEPT !.captured = Some(nodes)]
                 ELSE earlierFits[j]]
      last == [immediate |-> fitImmediate,
               captured |-> IF replaced THEN Some(nodes) ELSE None,
               width |-> width, height |-> height]
  IN /\ earlierFits' =
          IF ~ran THEN earlierFits
          ELSE IF nodes = <<>> \/ nodes' = <<>> THEN <<>>
          ELSE IF fitPending THEN Append(kept, last)
          ELSE kept
     /\ Len(earlierFits') <= MaxEarlierFits

KeptAlphaTarget(active, target) == target
\* if (!event.active) simulation.alphaTarget(0)
EndAlphaTarget(active, target) == IF active = 0 THEN 0 ELSE target

Pinned(ns, id, fx, fy) ==
  [i \in 1..Len(ns) |->
     IF ns[i].id = id THEN [ns[i] EXCEPT !.fx = fx, !.fy = fy] ELSE ns[i]]

\* dragstarted on the element of id target (one pointer, so event.active is
\* 0): the simulation of the run that bound the handler is restarted and
\* the node is pinned where it is. The element of a current node has the
\* handler of the last run; an element that is fading out has the handler
\* of an earlier run, whose simulation and node objects were replaced.
dragstarted(target) ==
  /\ drag = None
  /\ lastCall' = "dragstarted"
  /\ IF \E e \in exiting : e.id = target
     THEN LET e == CHOOSE e \in exiting : e.id = target
          IN /\ supersededRunning' = TRUE
             /\ supersededSim' = [alpha |-> e.alpha, alphaTarget |-> 300,
                                  width |-> e.width, height |-> e.height]
             /\ drag' = Some([target |-> target, sim |-> "restarted",
                              node |-> "superseded", pointer |-> None])
             /\ UNCHANGED <<nodes, simRunning, alphaTarget>>
     ELSE /\ \E i \in 1..Len(nodes) : nodes[i].id = target
          /\ nodes' = [i \in 1..Len(nodes) |->
                         IF nodes[i].id = target
                         THEN [nodes[i] EXCEPT !.fx = nodes[i].x, !.fy = nodes[i].y]
                         ELSE nodes[i]]
          /\ simRunning' = TRUE
          /\ alphaTarget' = 300
          /\ drag' = Some([target |-> target, sim |-> "current",
                           node |-> "current", pointer |-> None])
          /\ UNCHANGED <<supersededRunning, supersededSim>>
  /\ UNCHANGED <<links, highlightedCharacter, data, reapplied, lastValid,
                 nodeDom, linkDom, width, height, exiting, fitPending, transform,
                 linkEnds, alpha, fitImmediate, earlierFits, appVars>>

\* dragged: the pointer is at p; the handler pins the node object the
\* gesture started on.
dragged(p) ==
  /\ drag # None
  /\ drag' = Some([drag[1] EXCEPT !.pointer = Some(p)])
  /\ nodes' = IF drag[1].node = "current"
              THEN Pinned(nodes, drag[1].target, Some(p[1]), Some(p[2]))
              ELSE nodes
  /\ lastCall' = "dragged"
  /\ UNCHANGED <<links, highlightedCharacter, data, reapplied, lastValid,
                 nodeDom, linkDom, width, height, simRunning, supersededRunning,
                 exiting, fitPending, transform, linkEnds, alpha, alphaTarget,
                 supersededSim, fitImmediate, earlierFits, appVars>>

\* dragended (event.active is 0): alphaTarget of the simulation the handler
\* keeps goes to 0 and the pin of the node object is cleared.
dragended ==
  /\ drag # None
  /\ drag' = None
  /\ alphaTarget' = IF drag[1].sim = "current"
                    THEN EndAlphaTarget(0, alphaTarget) ELSE alphaTarget
  /\ supersededSim' =
       IF drag[1].sim = "restarted"
       THEN [supersededSim EXCEPT !.alphaTarget = EndAlphaTarget(0, @)]
       ELSE supersededSim
  /\ nodes' = IF drag[1].node = "current"
              THEN Pinned(nodes, drag[1].target, None, None)
              ELSE nodes
  /\ lastCall' = "dragended"
  /\ UNCHANGED <<links, highlightedCharacter, data, reapplied, lastValid,
                 nodeDom, linkDom, width, height, simRunning, supersededRunning,
                 exiting, fitPending, transform, linkEnds, alpha,
                 fitImmediate, earlierFits, appVars>>

\* The exit transitions end: the fading elements are removed.
ExitEnd ==
  /\ exiting # {}
  /\ exiting' = {}
  /\ lastCall' = "exitEnd"
  /\ UNCHANGED <<nodes, links, highlightedCharacter, data, reapplied, lastValid,
                 nodeDom, linkDom, width, height,
                 simRunning, supersededRunning, fitPending, transform,
                 linkEnds, alpha, alphaTarget, supersededSim, drag,
                 fitImmediate, earlierFits, appVars>>

---------------------------------------------------------------------------
(* App: the session *)

graphVars == <<nodes, links, highlightedCharacter, data, reapplied, nodeDom,
               linkDom, width, height, simVars>>

\* the events whose data the effect is to give updateData
CarriesData(e) ==
  e.type \in {"batch_complete", "analysis_complete"} /\ ~e.data.isNull

\* handleBookSelect up to its await (the buttons that call it are disabled
\* while isAnalyzing): setIsAnalyzing(true), clearUpdates(), the POST.
handleBookSelect ==
  /\ ~isAnalyzing
  /\ isAnalyzing' = TRUE
  /\ currentUpdate' = None
  /\ effectDue' = (effectDue \/ currentUpdate # None)
  /\ fetching' = TRUE
  /\ pending' = <<>>
  /\ lastCall' = "handleBookSelect"
  /\ UNCHANGED <<graphVars, lastValid, earlierFits, hasAnalyzed>>

\* The POST settles: a failure ends in the catch, setIsAnalyzing(false).
fetchSettled(ok) ==
  /\ fetching
  /\ fetching' = FALSE
  /\ isAnalyzing' = IF ok THEN isAnalyzing ELSE FALSE
  /\ lastCall' = "fetchSettled"
  /\ UNCHANGED <<graphVars, lastValid, earlierFits, currentUpdate, effectDue,
                 hasAnalyzed, pending>>

\* useSocket, on 'analysis_update': setCurrentUpdate(update)
analysis_update(e) ==
  /\ CarriesData(e) => Len(pending) < MaxEvents
  /\ currentUpdate' = Some(e)
  /\ effectDue' = TRUE
  /\ pending' = IF CarriesData(e) THEN Append(pending, e.type) ELSE pending
  /\ lastCall' = "analysis_update"
  /\ UNCHANGED <<graphVars, lastValid, earlierFits, isAnalyzing, hasAnalyzed,
                 fetching>>

\* a sequence without the last occurrence of e
WithoutLast(seq, e) ==
  LET at == {i \in 1..Len(seq) : seq[i] = e}
  IN IF at = {} THEN seq
     ELSE LET k == CHOOSE i \in at : \A j \in at : j <= i
          IN [i \in 1..(Len(seq) - 1) |-> IF i < k THEN seq[i] ELSE seq[i + 1]]

AnyTypeApplies(u) == u # None /\ ~u[1].data.isNull
\* currentUpdate?.type === 'batch_complete' && currentUpdate.data, or
\* currentUpdate?.type === 'analysis_complete' && currentUpdate.data
AppliesData(u) ==
  /\ u # None
  /\ u[1].type \in {"batch_complete", "analysis_complete"}
  /\ ~u[1].data.isNull

\* the second branch: setIsAnalyzing(false); setHasAnalyzed(true)
EndsSession(u) ==
  u # None /\ u[1].type = "analysis_complete" /\ ~u[1].data.isNull

\* the third branch: setIsAnalyzing(false)
ReportsError(u) == u # None /\ u[1].type = "error"

\* App's effect on currentUpdate, after the render that changed it.
updateEffect ==
  /\ effectDue
  /\ effectDue' = FALSE
  /\ IF AppliesData(currentUpdate)
     THEN /\ UpdateData(currentUpdate[1].data)
          /\ pending' = WithoutLast(pending, currentUpdate[1].type)
     ELSE /\ lastCall' = "updateEffect"
          /\ UNCHANGED <<graphVars, pending>>
  /\ isAnalyzing' = IF EndsSession(currentUpdate) \/ ReportsError(currentUpdate)
                    THEN FALSE ELSE isAnalyzing
  /\ hasAnalyzed' = IF EndsSession(currentUpdate) THEN TRUE ELSE hasAnalyzed
  /\ UNCHANGED <<lastValid, earlierFits, currentUpdate, fetching>>

---------------------------------------------------------------------------
(* Specifications *)

\* updateData called on its own, the timers of earlier runs not followed
Standalone == UNCHANGED <<lastValid, earlierFits, appVars>>

\* The graph model and the selection
Next ==
  \/ \E d \in Batches : UpdateData(d) /\ Standalone
  \/ \E name \in Names \cup {Null} : HighlightCharacter(name)

Spec == Init /\ [][Next]_vars

\* The graph model with the history of the batches
NextHistory ==
  \E d \in Batches :
    /\ UpdateData(d)
    /\ lastValid' = IF d \in ValidBatches THEN Some(d) ELSE lastValid
    /\ UNCHANGED <<earlierFits, appVars>>

SpecHistory == Init /\ [][NextHistory]_vars

\* The layout: batches of characters, simulation steps, resizes
NextLayout ==
  \/ \E d \in LayoutBatches : UpdateData(d) /\ Standalone
  \/ Tick
  \/ \E s \in Sizes : Resize(s[1], s[2]) /\ UNCHANGED earlierFits

SpecLayout == Init /\ [][NextLayout]_vars

\* The camera: batches of characters, simulation steps, resizes, auto-fit
NextCamera ==
  \/ \E d \in LayoutBatches : UpdateData(d) /\ Standalone
  \/ Tick
  \/ \E s \in Sizes : Resize(s[1], s[2]) /\ UNCHANGED earlierFits
  \/ AutoFit

SpecCamera == Init /\ [][NextCamera]_vars

\* The simulations: batches of characters, resizes, drags, ends of fades
NextSimulation ==
  \/ \E d \in LayoutBatches : UpdateData(d) /\ Standalone
  \/ \E s \in Sizes : Resize(s[1], s[2]) /\ UNCHANGED earlierFits
  \/ \E target \in LayoutNames : dragstarted(target)
  \/ dragended
  \/ ExitEnd

SpecSimulation == Init /\ [][NextSimulation]_vars

\* The graph model over the range of mentions and weights
NextRange == \E d \in RangeBatches : UpdateData(d) /\ Standalone

SpecRange == Init /\ [][NextRange]_vars

\* The drags: batches of characters, ticks of the simulations, gestures
NextDrag ==
  \/ \E d \in LayoutBatches : UpdateData(d) /\ Standalone
  \/ Tick
  \/ SupersededTick
  \/ \E target \in LayoutNames : dragstarted(target)
  \/ \E p \in DragPositions : dragged(p)
  \/ dragended
  \/ ExitEnd

SpecDrag == Init /\ [][NextDrag]_vars

\* The same, with the timer of each running simulation firing its ticks
SpecCooling ==
  /\ Init
  /\ [][NextDrag]_vars
  /\ WF_vars(Tick)
  /\ WF_vars(SupersededTick)

\* What schedules an auto-fit: batches of one character, ticks, the timer,
\* gestures
NextRefit ==
  \/ \E d \in {b \in LayoutBatches : Len(ListOf(b.characters)) <= 1} :
       UpdateData(d) /\ Standalone
  \/ Tick
  \/ AutoFit
  \/ \E target \in LayoutNames : dragstarted(target)
  \/ \E p \in DragPositions : dragged(p)
  \/ dragended

SpecRefit == Init /\ [][NextRefit]_vars

\* The timers: batches of characters, resizes, the auto-fit timers
NextTimers ==
  \/ \E d \in LayoutBatches :
       /\ UpdateData(d)
       /\ FollowFits(HasBothLists(d), TRUE)
       /\ UNCHANGED <<lastValid, appVars>>
  \/ \E s \in Sizes : Resize(s[1], s[2]) /\ FollowFits(nodes # <<>>, FALSE)
  \/ AutoFit
  \/ \E i \in 1..MaxEarlierFits : EarlierAutoFit(i)

SpecTimers == Init /\ [][NextTimers]_vars

\* The links under the ticks: snapshots of two characters, ticks, resizes
NextTick ==
  \/ \E d \in PairBatches : UpdateData(d) /\ Standalone
  \/ Tick
  \/ \E s \in Sizes : Resize(s[1], s[2]) /\ UNCHANGED earlierFits

SpecTick == Init /\ [][NextTick]_vars

\* The session: books, events, the effect, the selection
NextSession ==
  \/ handleBookSelect
  \/ \E ok \in BOOLEAN : fetchSettled(ok)
  \/ \E e \in Events : analysis_update(e)
  \/ updateEffect
  \/ \E name \in {Cast[1], Null} : HighlightCharacter(name)

SpecSession == Init /\ [][NextSession]_vars

---------------------------------------------------------------------------
(* Vocabulary of the properties *)

\* what a node and a link are apart from the layout's fields
NodeView(n) ==
  [ id |-> n.id, name |-> n.name, mentions |-> n.mentions,
    description |-> n.description, radius |-> n.radius,
    importance |-> n.importance, color |-> n.color ]
NodeViews(ns) == [i \in 1..Len(ns) |-> NodeView(ns[i])]

NodeIds(ns) == {ns[i].id : i \in 1..Len(ns)}
IdOnce(ns, id) == Cardinality({i \in 1..Len(ns) : ns[i].id = id}) = 1

\* the position of an index among the indices of a set, counted from 1
Rank(S, i) == Cardinality({j \in S : j <= i})

WellFormed(d) == d # None /\ d[1] \in ValidBatches
IsUpdate == lastCall' = "updateData"
\* App's effect runs in this step, with the value currentUpdate has
EffectRuns == effectDue /\ ~effectDue'
EffectRunsOn(types) ==
  EffectRuns /\ currentUpdate # None /\ currentUpdate[1].type \in types
\* this step is a drag handler
IsDragStep == lastCall' \in {"dragstarted", "dragged", "dragended"}

DefaultLinkStyle(l) ==
  [ strokeOpacity |-> 700, stroke |-> DefaultLinkColor(l),
    strokeWidth |-> DefaultLinkWidth(l) ]
ActiveLinkStyle(l) ==
  [ strokeOpacity |-> 1000, stroke |-> ActiveLinkColor,
    strokeWidth |-> ActiveLinkWidth(l) ]

---------------------------------------------------------------------------
(* Properties *)

\* C1: a valid batch leaves every character that is a node before and after
\* it at the position (x, y) and with the pin (fx, fy) it had before.
\* The code does not: updateData builds fresh node objects without x and y,
\* and the simulation started on them places each at the initial position
\* of its index.
C1_PositionsKept ==
  [][ (IsUpdate /\ WellFormed(data'))
        => \A i \in 1..Len(nodes) : \A j \in 1..Len(nodes') :
             ( /\ nodes'[j].id = nodes[i].id
               /\ IdOnce(nodes, nodes[i].id)
               /\ IdOnce(nodes', nodes[i].id) )
             => /\ nodes'[j].x = nodes[i].x
                /\ nodes'[j].y = nodes[i].y
                /\ nodes'[j].fx = nodes[i].fx
                /\ nodes'[j].fy = nodes[i].fy ]_vars

\* C2: in every reachable state the source and the target of every link
\* are ids of nodes of the node list.
C2_NoDanglingLink ==
  \A k \in 1..Len(links) :
    links[k].source \in NodeIds(nodes) /\ links[k].target \in NodeIds(nodes)

C2_Witness ==
  /\ lastCall = "updateData"
  /\ data # None /\ data[1] \in MalformedBatches
  /\ Len(links) >= 1
  /\ Len(nodes) >= 2

\* C3: while the last batch passed to updateData has both lists, the nodes
\* are the batch's characters with mentions >= 2, one node per entry and in
\* the order of the list, and the links are the batch's interactions with
\* weight >= 2 whose source and target both name a kept character, in the
\* order of the list.
C3_ExactlyTheFiltered ==
  WellFormed(data) =>
    LET chars == ListOf(data[1].characters)
        inter == ListOf(data[1].interactions)
        Q == {i \in 1..Len(chars) : chars[i].mentions >= 2}
        kept == {chars[i].name : i \in Q}
        R == {k \in 1..Len(inter) :
                /\ inter[k].weight >= 2
                /\ inter[k].source \in kept
                /\ inter[k].target \in kept}
    IN /\ Len(nodes) = Cardinality(Q)
       /\ \A i \in Q :
            /\ nodes[Rank(Q, i)].id = chars[i].name
            /\ nodes[Rank(Q, i)].name = chars[i].name
            /\ nodes[Rank(Q, i)].mentions = chars[i].mentions
            /\ nodes[Rank(Q, i)].description = chars[i].description
       /\ Len(links) = Cardinality(R)
       /\ \A k \in R :
            /\ links[Rank(R, k)].source = inter[k].source
            /\ links[Rank(R, k)].target = inter[k].target
            /\ links[Rank(R, k)].weight = inter[k].weight
            /\ links[Rank(R, k)].contexts = inter[k].contexts

C3_Witness ==
  /\ lastCall = "updateData"
  /\ WellFormed(data)
  /\ Len(ListOf(data[1].characters)) = 2
  /\ Len(nodes) = 1
  /\ Len(ListOf(data[1].interactions)) = 1
  /\ ListOf(data[1].interactions)[1].weight >= 2
  /\ links = <<>>

\* C4: an updateData call with the argument of the call before it leaves
\* the nodes (id, mentions, description, radius, importance, color) and the
\* links (endpoints, weight, contexts, strokeWidth) as the first call made
\* them.
C4_SameBatchAgain ==
  [][ (IsUpdate /\ reapplied')
        => /\ NodeViews(nodes') = NodeViews(nodes)
           /\ links' = links ]_vars

C4_Witness ==
  /\ lastCall = "updateData"
  /\ reapplied
  /\ WellFormed(data)
  /\ Len(nodes) >= 2
  /\ Len(links) >= 1

\* C5: after any sequence of batches the nodes and links are those that the
\* last well-formed batch of the sequence gives on an empty graph model, and
\* both lists are empty while there has been none.
C5_LastBatchAlone ==
  IF lastValid = None
  THEN nodes = <<>> /\ links = <<>>
  ELSE LET chars == ListOf(lastValid[1].characters)
           inter == ListOf(lastValid[1].interactions)
           f == SelectSeq(chars, LAMBDA c : c.mentions >= 2)
           alone == [i \in 1..Len(f) |-> NodeView(NewNode(f[i], i - 1))]
           v == SelectSeq(inter, LAMBDA it :
                  /\ it.weight >= 2
                  /\ \E i \in 1..Len(f) : f[i].name = it.source
                  /\ \E i \in 1..Len(f) : f[i].name = it.target)
       IN /\ NodeViews(nodes) = alone
          /\ links = [k \in 1..Len(v) |-> NewLink(v[k])]

C5_Witness ==
  /\ lastValid # None
  /\ data # lastValid
  /\ Len(nodes) = 1
  /\ Len(ListOf(data[1].characters)) = 1
  /\ ListOf(data[1].characters)[1].mentions >= 2
  /\ ListOf(data[1].characters)[1].name # nodes[1].id

\* C6: an updateData call whose argument is null or lacks characters or
\* lacks interactions changes neither the nodes nor the links nor the
\* highlighted character.
C6_MalformedIsNoOp ==
  [][ (IsUpdate /\ data'[1] \in MalformedBatches)
        => UNCHANGED <<nodes, links, highlightedCharacter>> ]_vars

C6_Witness ==
  /\ lastCall = "updateData"
  /\ data # None /\ data[1] \in MalformedBatches
  /\ data[1].characters # None
  /\ Len(ListOf(data[1].characters)) = 1
  /\ ListOf(data[1].characters)[1].mentions >= 2
  /\ Len(nodes) = 2
  /\ Len(links) = 1
  /\ highlightedCharacter # Null

\* C7: no two nodes of the node list have the same id.
\* The code does not remove a name that the characters list has twice.
C7_UniqueIds ==
  \A i, j \in 1..Len(nodes) : i # j => nodes[i].id # nodes[j].id

\* C8: a character that is a node before and after a batch has the same
\* color after it (the claim for two successive states in which the
\* character is a node).
\* The code colors by the index in the batch's filtered list.
C8_ColorKept ==
  [][ IsUpdate
        => \A i \in 1..Len(nodes) : \A j \in 1..Len(nodes') :
             ( /\ nodes'[j].id = nodes[i].id
               /\ IdOnce(nodes, nodes[i].id)
               /\ IdOnce(nodes', nodes[i].id) )
             => nodes'[j].color = nodes[i].color ]_vars

\* C9: after highlightCharacter(A) for a node A: A has the selected stroke;
\* a link has the active style if A is its source or target and the default
\* style otherwise; a node other than A has the connected stroke if it is
\* the other end of an active link and the default stroke otherwise.
\* The code leaves the stroke and width of a link that an earlier selection
\* made active, and marks A connected when a link joins A to itself.
C9_HighlightExact ==
  ( /\ lastCall = "highlightCharacter"
    /\ highlightedCharacter # Null
    /\ highlightedCharacter \in NodeIds(nodes) )
  => LET A == highlightedCharacter
         active(l) == l.source = A \/ l.target = A
     IN /\ \A k \in 1..Len(links) :
             linkDom[k] = IF active(links[k]) THEN ActiveLinkStyle(links[k])
                          ELSE DefaultLinkStyle(links[k])
        /\ \A i \in 1..Len(nodes) :
             nodeDom[i] =
               IF nodes[i].name = A THEN SelectedNodeStroke
               ELSE IF \E k \in 1..Len(links) :
                         \/ links[k].source = A /\ links[k].target = nodes[i].name
                         \/ links[k].target = A /\ links[k].source = nodes[i].name
                    THEN ConnectedNodeStroke
               ELSE DefaultNodeStroke

\* C10: after highlightCharacter(null) every link has the default opacity,
\* width and color and every node has the default stroke.
\* The code resets the opacity of the links, not their stroke and width.
C10_NullRestoresDefault ==
  (lastCall = "highlightCharacter" /\ highlightedCharacter = Null)
  => /\ \A k \in 1..Len(links) : linkDom[k] = DefaultLinkStyle(links[k])
     /\ \A i \in 1..Len(nodes) : nodeDom[i] = DefaultNodeStroke

\* C11: a well-formed batch applied while a character A is selected keeps
\* the selection, and afterwards the marks are those of A on the new lists:
\* a link is active if A is its source or target in the new link list and
\* default otherwise, A has the selected stroke if it is a node, a node
\* other than A is connected if a new link joins it to A and default
\* otherwise (so nothing is marked when A is not a node).
\* The code recomputes from the new lists, but marks A connected, not
\* selected, when a new link joins A to itself (see C9).
C11_RecomputedFromNewLinks ==
  [][ (IsUpdate /\ WellFormed(data') /\ highlightedCharacter # Null)
        => /\ highlightedCharacter' = highlightedCharacter
           /\ \A k \in 1..Len(links') :
                linkDom'[k] =
                  IF \/ links'[k].source = highlightedCharacter
                     \/ links'[k].target = highlightedCharacter
                  THEN ActiveLinkStyle(links'[k])
                  ELSE DefaultLinkStyle(links'[k])
           /\ \A i \in 1..Len(nodes') :
                nodeDom'[i] =
                  IF nodes'[i].name = highlightedCharacter
                    THEN SelectedNodeStroke
                  ELSE IF \E k \in 1..Len(links') :
                            \/ /\ links'[k].source = highlightedCharacter
                               /\ links'[k].target = nodes'[i].name
                            \/ /\ links'[k].target = highlightedCharacter
                               /\ links'[k].source = nodes'[i].name
                    THEN ConnectedNodeStroke
                  ELSE DefaultNodeStroke ]_vars

\* C12: highlightCharacter with a name that no node has changes neither
\* the nodes nor the links, and afterwards every link has the default style
\* and every node the default stroke.
\* The code leaves the accent stroke and the width of the links that an
\* earlier selection made active (see C10).
C12_NoMatchHighlightsNothing ==
  [][ ( /\ lastCall' = "highlightCharacter"
        /\ highlightedCharacter' # Null
        /\ highlightedCharacter' \notin NodeIds(nodes) )
        => /\ UNCHANGED <<nodes, links>>
           /\ \A k \in 1..Len(links) : linkDom'[k] = DefaultLinkStyle(links[k])
           /\ \A i \in 1..Len(nodes) : nodeDom'[i] = DefaultNodeStroke ]_vars

\* C13: getCharacterInteractions returns one entry per node, in
\* non-increasing order of totalInteractions; the partners of an entry are
\* in non-increasing order of weight and are the neighbors of the
\* character, at most 8 of them.
\* The code keys the entries by name: two nodes of one name (see C7) give
\* one entry.
C13_SummaryRanked ==
  LET r == getCharacterInteractions(nodes, links)
      neighbors(name) ==
        {links[k].target : k \in {j \in 1..Len(links) : links[j].source = name}}
        \cup
        {links[k].source : k \in {j \in 1..Len(links) : links[j].target = name}}
  IN /\ Len(r) = Len(nodes)
     /\ \A i \in 1..Len(nodes) : \E e \in 1..Len(r) : r[e].character = nodes[i].name
     /\ \A e \in 1..(Len(r) - 1) :
          r[e].totalInteractions >= r[e + 1].totalInteractions
     /\ \A e \in 1..Len(r) :
          /\ Len(r[e].partners) = Min(8, Cardinality(neighbors(r[e].character)))
          /\ \A q \in 1..(Len(r[e].partners) - 1) :
               r[e].partners[q][2] >= r[e].partners[q + 1][2]

\* C14: the totalInteractions of every entry is the sum of the weights of
\* the links that have the character as source or target, each link once.
\* The code adds the weight of a link from a character to itself twice.
RECURSIVE IncidentWeight(_, _)
IncidentWeight(ls, name) ==
  IF ls = <<>> THEN 0
  ELSE (IF Head(ls).source = name \/ Head(ls).target = name
        THEN Head(ls).weight ELSE 0) + IncidentWeight(Tail(ls), name)

C14_TotalIsIncidentWeight ==
  LET r == getCharacterInteractions(nodes, links)
  IN \A e \in 1..Len(r) :
       r[e].totalInteractions = IncidentWeight(links, r[e].character)

\* C15: in every reachable state every node has 30 <= radius <= 60 and
\* mentions >= 2, and every link has 2 <= strokeWidth <= 10.
C15_RangesKept ==
  /\ \A i \in 1..Len(nodes) :
       /\ 30000 <= nodes[i].radius /\ nodes[i].radius <= 60000
       /\ nodes[i].mentions >= 2
  /\ \A k \in 1..Len(links) :
       2000 <= links[k].strokeWidth /\ links[k].strokeWidth <= 10000

C15_Witness ==
  /\ lastCall = "updateData"
  /\ Len(nodes) = 2
  /\ nodes[1].mentions = 2 /\ nodes[1].radius = 30000
  /\ nodes[2].mentions = 400 /\ nodes[2].radius = 60000
  /\ Len(links) = 1
  /\ links[1].weight = 400 /\ links[1].strokeWidth = 10000

\* C16: a character that is a node before and after a batch has at least
\* the mentions after it that it had before.
\* The code copies the mentions of the batch, whatever they were before.
C16_MentionsNeverDecrease ==
  [][ IsUpdate
        => \A i \in 1..Len(nodes) : \A j \in 1..Len(nodes') :
             ( /\ nodes'[j].id = nodes[i].id
               /\ IdOnce(nodes, nodes[i].id)
               /\ IdOnce(nodes', nodes[i].id) )
             => nodes'[j].mentions >= nodes[i].mentions ]_vars

\* C17: when the auto-fit timer has fired, the scale of the transform is
\* min((width-160)/contentWidth, (height-160)/contentHeight, 1.5), the
\* center of the content is mapped to the center of the viewport, and the
\* footprint of every node (radius max(radius, (nameLength*8+20)/2) + 20
\* around its position) is mapped into [0, width] x [0, height].
C17_FootprintsInViewport ==
  lastCall = "autoFit" =>
    LET b == BoundingBox(nodes)
        cw == b.maxX - b.minX
        ch == b.maxY - b.minY
        k == transform.k
    IN /\ k = Min(Min(((width - 160) * 1000000) \div cw,
                       ((height - 160) * 1000000) \div ch), 1500)
       /\ Mapped((b.minX + b.maxX) \div 2, k, transform.x) = width * 500
       /\ Mapped((b.minY + b.maxY) \div 2, k, transform.y) = height * 500
       /\ \A i \in 1..Len(nodes) :
            LET r == Max(nodes[i].radius,
                         ((NameLength(nodes[i].name) * 8 + 20) * 1000) \div 2)
                       + 20000
            IN /\ Mapped(nodes[i].x[1] - r, k, transform.x) >= 0
               /\ Mapped(nodes[i].x[1] + r, k, transform.x) <= width * 1000
               /\ Mapped(nodes[i].y[1] - r, k, transform.y) >= 0
               /\ Mapped(nodes[i].y[1] + r, k, transform.y) <= height * 1000

C17_Witness ==
  /\ lastCall = "autoFit"
  /\ Len(nodes) = 2
  /\ width = 300
  /\ transform.k < 1500
  /\ nodes[1].x # nodes[2].x

\* C18: auto-fit changes no transform while there are no nodes, and the
\* content width and height it divides by are at least 100 whenever it
\* computes a transform, also for a single node.
C18_ContentAtLeastHundred ==
  [][ /\ nodes = <<>> => transform' = transform
      /\ lastCall' = "autoFit"
           => /\ ContentWidth(nodes) >= 100000
              /\ ContentHeight(nodes) >= 100000 ]_vars

C18_Witness ==
  /\ lastCall = "autoFit"
  /\ Len(nodes) = 1
  /\ ContentWidth(nodes) = 100000
  /\ ContentHeight(nodes) = 100000

\* C19: after a tick every node has margin <= x <= width - margin and
\* margin <= y <= height - margin, margin = max(radius + 30, nameLength*3 + 20).
\* The code clamps to the lower bound last: on a canvas narrower than twice
\* the margin x is margin, which is more than width - margin.
C19_ClampedIntoCanvas ==
  lastCall = "tick" =>
    \A i \in 1..Len(nodes) :
      LET margin == Max(nodes[i].radius + 30000,
                        (NameLength(nodes[i].name) * 3 + 20) * 1000)
      IN /\ margin <= nodes[i].x[1]
         /\ nodes[i].x[1] <= width * 1000 - margin
         /\ margin <= nodes[i].y[1]
         /\ nodes[i].y[1] <= height * 1000 - margin

\* C20: no simulation of an earlier run of the main effect is running: the
\* one simulation that may run is the one the last run made.
\* The code leaves the drag handler of an earlier run on an element that
\* is fading out; a drag on it restarts the simulation of that run.
C20_OneSimulation ==
  ~supersededRunning

\* C21: handleBookSelect leaves the graph model empty (the graph of the
\* session before is discarded, and stays so until the first valid batch),
\* and the nodes and links change through updateData alone.
\* The code clears currentUpdate and sets isAnalyzing; nodes and links keep
\* the graph of the session before.
C21_NewSessionStartsEmpty ==
  [][ /\ lastCall' = "handleBookSelect" => nodes' = <<>> /\ links' = <<>>
      /\ (nodes' # nodes \/ links' # links) => lastCall' = "updateData" ]_vars

\* C22: when the effect has run on an analysis_complete event, whatever its
\* data, isAnalyzing is false and hasAnalyzed is true, and data with both
\* lists was given to updateData.
\* The code tests `type === 'analysis_complete' && currentUpdate.data`: an
\* event without data takes no branch.
C22_CompleteEndsSession ==
  [][ EffectRunsOn({"analysis_complete"})
        => /\ ~isAnalyzing'
           /\ hasAnalyzed'
           /\ HasBothLists(currentUpdate[1].data)
                => /\ lastCall' = "updateData"
                   /\ data' = Some(currentUpdate[1].data) ]_vars

\* C23: the effect on a progress or error event leaves nodes, links and
\* highlightedCharacter as they are, whatever data the event carries, and on
\* an error event isAnalyzing is false afterwards.
C23_ProgressAndErrorKeepGraph ==
  [][ EffectRunsOn({"progress", "error"})
        => /\ nodes' = nodes
           /\ links' = links
           /\ highlightedCharacter' = highlightedCharacter
           /\ currentUpdate[1].type = "error" => ~isAnalyzing' ]_vars

C23_Witness ==
  /\ lastCall = "updateEffect"
  /\ ~effectDue
  /\ currentUpdate # None
  /\ currentUpdate[1].type = "error"
  /\ ~currentUpdate[1].data.isNull
  /\ Len(nodes) = 1
  /\ highlightedCharacter = Cast[1]
  /\ ~isAnalyzing

\* C24: dragstarted pins the node where it is, sets alphaTarget to 0.3 and
\* restarts the simulation; after dragged the node of the gesture is pinned
\* at the pointer; after dragended no node is pinned and alphaTarget is 0.
\* The handlers write to the node object the gesture started on: after a
\* batch has replaced the node objects, dragged pins nothing in the graph.
C24_DragProtocol ==
  [][ /\ lastCall' = "dragstarted" =>
           \A i \in 1..Len(nodes') :
             nodes'[i].id = drag'[1].target
               => /\ nodes'[i].fx = nodes[i].x
                  /\ nodes'[i].fy = nodes[i].y
                  /\ alphaTarget' = 300
                  /\ simRunning'
      /\ lastCall' = "dragged" =>
           \A i \in 1..Len(nodes') :
             nodes'[i].id = drag'[1].target
               => /\ nodes'[i].fx = Some(drag'[1].pointer[1][1])
                  /\ nodes'[i].fy = Some(drag'[1].pointer[1][2])
      /\ lastCall' = "dragended" =>
           /\ \A i \in 1..Len(nodes') :
                nodes'[i].fx = None /\ nodes'[i].fy = None
           /\ alphaTarget' = 0 ]_vars

\* C25: no simulation runs while nothing is mounted, and no simulation
\* ticks for ever once the drags and the batches are over: again and again
\* every simulation is stopped, or a drag is in progress, or a batch has
\* just been applied.
C25_EverySimulationStops ==
  /\ [](nodes = <<>> => ~simRunning)
  /\ []<>( \/ ~simRunning /\ ~supersededRunning
           \/ drag # None
           \/ lastCall = "updateData" )

C25_Witness ==
  /\ lastCall = "supersededTick"
  /\ ~supersededRunning
  /\ ~simRunning
  /\ supersededSim.alphaTarget = 0
  /\ nodes # <<>>
  /\ drag = None

\* C26: a successful update that leaves nodes has an auto-fit timer pending,
\* the tick that settles the layout (the simulation stops) has one pending
\* too, and no drag handler changes the timers.
\* The code calls autoFitGraph in the main effect alone: when the layout
\* settles after the timer of the run has fired, nothing is scheduled.
C26_RefitWhenSettled ==
  [][ /\ (lastCall' = "updateData" /\ HasBothLists(data'[1]) /\ nodes' # <<>>)
           => fitPending'
      /\ (lastCall' = "tick" /\ simRunning /\ ~simRunning') => fitPending'
      /\ IsDragStep => /\ fitPending' = fitPending
                       /\ fitImmediate' = fitImmediate
                       /\ earlierFits' = earlierFits ]_vars

\* C27 as stated: the pending auto-fit starts after 100 ms whether immediate
\* or not, and animates for 500 ms when immediate and for 1500 ms otherwise.
\* The code has `immediate ? 100 : 1000` for the delay.
C27_SameShortDelay ==
  fitPending =>
    /\ FitDelay(fitImmediate) = 100
    /\ FitDuration(fitImmediate) = IF fitImmediate THEN 500 ELSE 1500

\* C27 as amended: the auto-fit a run of the main effect schedules starts
\* after 100 ms and animates for 500 ms when the number of nodes differs
\* from the one of the render before (none before the first render), and
\* starts after 1000 ms and animates for 1500 ms otherwise.
C27_DelayByKind ==
  [][ ( \/ lastCall' = "updateData" /\ HasBothLists(data'[1]) /\ nodes' # <<>>
        \/ lastCall' = "resize" /\ nodes' # <<>> )
        => /\ fitPending'
           /\ FitDelay(fitImmediate') =
                IF Len(nodes') # Len(nodes) THEN 100 ELSE 1000
           /\ FitDuration(fitImmediate') =
                IF Len(nodes') # Len(nodes) THEN 500 ELSE 1500 ]_vars

C27_Witness ==
  /\ lastCall = "updateData"
  /\ Len(nodes) = 2
  /\ fitPending
  /\ ~fitImmediate
  /\ Len(earlierFits) = 1
  /\ earlierFits[1].immediate

\* C28: once the effect has run on the value currentUpdate has, every event
\* with data that arrived in the session has been given to updateData.
\* setCurrentUpdate overwrites: of two events that arrive before the
\* effect runs, the effect sees the second alone.
C28_NoEventLost ==
  ~effectDue => pending = <<>>

\* C29: the timer of an earlier run never fires after the timer of the last
\* run: when it fires, the timer of the last run is still pending, so that
\* the last transform is the one of the nodes and the size of now.
\* The code cancels no timer, and the delay is 1000 ms or 100 ms: the timer
\* of a resize fires after the timer of a later batch that changed the
\* number of nodes.
C29_LatestFitIsLast ==
  /\ lastCall = "earlierAutoFit" => fitPending
  /\ lastCall = "autoFit" => transform = autoFitGraph(nodes, width, height)

\* C30: after a tick the ends of every link element are the positions of
\* its source and target nodes after that tick.
\* The tick handler writes the ends of the links before it clamps the
\* nodes: the end of a link at a clamped node is where the node was before.
C30_LinkEndsAtNodes ==
  lastCall = "tick" =>
    \A i \in 1..Len(links) : linkEnds[i] = LinkEnd(nodes, links[i])

====
